---- MODULE Spec2Model ----
(***************************************************************************)
(* State-machine model of the Shopify source connector                     *)
(* (source_shopify/source.py): the incremental cursor (get_updated_state,  *)
(* stream_state_to_tmp, filter_records_newer_than_state), the temporary    *)
(* state shared between streams, and the parent -> child slicing of the    *)
(* order and price-rule sub-streams.                                       *)
(*                                                                         *)
(* Encoding of Python values:                                              *)
(*   - a dict is a function whose DOMAIN is its key set; None and {} are   *)
(*     both falsy and are never told apart by the code (every use is       *)
(*     guarded by `if stream_state:` or `stream_state or {}`), so None is  *)
(*     the empty dict;                                                     *)
(*   - an ISO-8601 timestamp is a number 1..MaxT in the lexicographic      *)
(*     order of the strings, and the empty string "" is 0: smaller than    *)
(*     every timestamp and falsy;                                          *)
(*   - ids are numbers >= 1, the numeric default 0 is below all of them.   *)
(***************************************************************************)
EXTENDS Integers, Sequences, FiniteSets, TLC

\* Bounds of the model.
MaxT == 2
MaxLen == 3
MaxRecords == 4
MaxLimit == 2

\* config["start_date"]: the earliest timestamp.
start_date == 1

\* The "" default of .get(cursor_field, "") and the 0 default of .get(cursor_field, 0).
EmptyStr == 0
ZeroId == 0

Values == 1..MaxT

EmptyMap == [k \in {} |-> 0]
None == EmptyMap

\* dict.get(key, default)
Get(m, k, d) == IF k \in DOMAIN m THEN m[k] ELSE d

\* d[k] = v on a copy of d
Put(m, k, v) == [x \in (DOMAIN m) \cup {k} |-> IF x = k THEN v ELSE m[x]]

\* Python truthiness of a dict, and of a string or number
Truthy(m) == DOMAIN m # {}
TruthyValue(v) == v # 0

Min(a, b) == IF a <= b THEN a ELSE b
Max(a, b) == IF a >= b THEN a ELSE b

\* ------------------------------------------------------------------ classes
\* A stream class is named by its stream name (HttpStream.name: the class
\* name in snake case), which is also the key it uses in tmp_stream_state.
TimestampStreams == {"orders", "order_refunds", "transactions", "price_rules", "discount_codes"}
IdStreams == {"collects", "order_risks"}
OrderSubstreams == {"order_refunds", "order_risks", "transactions"}
ChildStreams == OrderSubstreams \cup {"discount_codes"}

cursor_field(cls) ==
    CASE cls \in {"collects", "order_risks"} -> "id"
      [] cls \in {"order_refunds", "transactions"} -> "created_at"
      [] OTHER -> "updated_at"

order_field(cls) ==
    CASE cls \in {"collects", "order_risks"} -> "id"
      [] cls \in {"order_refunds", "transactions"} -> "created_at"
      [] OTHER -> "updated_at"

filter_field(cls) ==
    CASE cls \in {"collects", "order_risks"} -> "since_id"
      [] cls \in {"order_refunds", "transactions"} -> "created_at_min"
      [] OTHER -> "updated_at_min"

data_field(cls) ==
    CASE cls = "order_refunds" -> "refunds"
      [] cls = "order_risks" -> "risks"
      [] OTHER -> cls

\* ------------------------------------------------------------------ cursor
\* stream_state_to_tmp keeping the larger of the state and the saved value.
stream_state_to_tmp_max(stream_name, current_stream_state, latest_record, state_object, cf) ==
    LET tmp_stream_state_value == Get(Get(state_object, stream_name, EmptyMap), cf, EmptyStr)
        first == Put(state_object, stream_name,
                     cf :> Min(Get(current_stream_state, cf, EmptyStr), Get(latest_record, cf, EmptyStr)))
    IN  IF Truthy(current_stream_state)
        THEN IF TruthyValue(tmp_stream_state_value)
             THEN Put(first, stream_name,
                      cf :> Max(Get(current_stream_state, cf, EmptyStr), tmp_stream_state_value))
             ELSE first
        ELSE state_object

\* stream_state_to_tmp without the test of current_stream_state: it writes
\* the entry on every call.
stream_state_to_tmp_unguarded(stream_name, current_stream_state, latest_record, state_object, cf) ==
    LET tmp_stream_state_value == Get(Get(state_object, stream_name, EmptyMap), cf, EmptyStr)
        first == Put(state_object, stream_name,
                     cf :> Min(Get(current_stream_state, cf, EmptyStr), Get(latest_record, cf, EmptyStr)))
    IN  IF TruthyValue(tmp_stream_state_value)
        THEN Put(first, stream_name,
                 cf :> Min(Get(current_stream_state, cf, EmptyStr), tmp_stream_state_value))
        ELSE first

\* IncrementalShopifyStream.stream_state_to_tmp: the new contents of
\* state_object (which the code mutates in place and returns).
stream_state_to_tmp(stream_name, current_stream_state, latest_record, state_object, cf) ==
    LET tmp_stream_state_value == Get(Get(state_object, stream_name, EmptyMap), cf, EmptyStr)
        first == Put(state_object, stream_name,
                     cf :> Min(Get(current_stream_state, cf, EmptyStr), Get(latest_record, cf, EmptyStr)))
    IN  IF Truthy(current_stream_state)
        THEN IF TruthyValue(tmp_stream_state_value)
             THEN Put(first, stream_name,
                      cf :> Min(Get(current_stream_state, cf, EmptyStr), tmp_stream_state_value))
             ELSE first
        ELSE state_object

\* get_updated_state returning the record's cursor value whatever the state holds.
base_updated_state_latest(cls, current_stream_state, latest_record) ==
    cursor_field(cls) :> Get(latest_record, cursor_field(cls), EmptyStr)

\* get_updated_state of the id-cursored streams keeping the smaller id.
id_updated_state_min(cls, current_stream_state, latest_record) ==
    cursor_field(cls) :> Min(Get(latest_record, cursor_field(cls), ZeroId),
                            Get(current_stream_state, cursor_field(cls), ZeroId))

\* The value get_updated_state returns: the base rule (line 142) and the
\* override of Collects and OrderRisks (lines 264, 298).
base_updated_state(cls, current_stream_state, latest_record) ==
    cursor_field(cls) :> Max(Get(latest_record, cursor_field(cls), EmptyStr),
                            Get(current_stream_state, cursor_field(cls), EmptyStr))

id_updated_state(cls, current_stream_state, latest_record) ==
    cursor_field(cls) :> Max(Get(latest_record, cursor_field(cls), ZeroId),
                            Get(current_stream_state, cursor_field(cls), ZeroId))

get_updated_state(cls, current_stream_state, latest_record) ==
    IF cls \in IdStreams
    THEN id_updated_state(cls, current_stream_state, latest_record)
    ELSE base_updated_state(cls, current_stream_state, latest_record)

\* get_updated_state saving the state under the parent's stream name when
\* the stream is a sub-stream of orders.
tmp_after_update_parent_key(cls, current_stream_state, latest_record, state_object) ==
    IF cls \in IdStreams
    THEN state_object
    ELSE stream_state_to_tmp(IF cls \in OrderSubstreams THEN "orders" ELSE cls,
                             current_stream_state, latest_record, state_object, cursor_field(cls))

\* The effect of get_updated_state on the temporary state: the base method
\* passes self.tmp_stream_state through stream_state_to_tmp; the overrides of
\* Collects and OrderRisks never touch it.
tmp_after_update(cls, current_stream_state, latest_record, state_object) ==
    IF cls \in IdStreams
    THEN state_object
    ELSE stream_state_to_tmp(cls, current_stream_state, latest_record, state_object, cursor_field(cls))

\* filter_records_newer_than_state keeping only the records strictly newer than the state.
RECURSIVE filter_records_strictly_newer(_, _, _)
filter_records_strictly_newer(cls, stream_state, records_slice) ==
    IF Truthy(stream_state)
    THEN IF records_slice = <<>>
         THEN <<>>
         ELSE LET record == Head(records_slice)
                  rest == filter_records_strictly_newer(cls, stream_state, Tail(records_slice))
              IN  IF record[cursor_field(cls)] > stream_state[cursor_field(cls)]
                  THEN <<record>> \o rest
                  ELSE rest
    ELSE records_slice

\* IncrementalShopifyStream.filter_records_newer_than_state, on a sequence.
\* The records it is given carry the cursor field and the state, when there
\* is one, is keyed by it (record[cursor_field] and the comparison raise
\* otherwise).
RECURSIVE filter_records_newer_than_state(_, _, _)
filter_records_newer_than_state(cls, stream_state, records_slice) ==
    IF Truthy(stream_state)
    THEN IF records_slice = <<>>
         THEN <<>>
         ELSE LET record == Head(records_slice)
                  rest == filter_records_newer_than_state(cls, stream_state, Tail(records_slice))
              IN  IF record[cursor_field(cls)] >= stream_state[cursor_field(cls)]
                  THEN <<record>> \o rest
                  ELSE rest
    ELSE records_slice

\* ------------------------------------------------------------------ state
VARIABLES
    tmp_stream_state,   \* the dict made at line 57, a class attribute of ShopifyStream
    cur,                \* the stream instance the runner is syncing
    synced,             \* the stream names the runner has started so far
    last,               \* the last call made, with the values it was given
    filt,               \* a call of filter_records_newer_than_state: its arguments and what it yielded
    call,               \* a call of request_params: its arguments and the parameters it returned
    srv,                \* the records the server holds: parents and kids
    child,              \* the child stream of the run (its parent is ParentOf(child))
    connector_state,    \* the checkpointed state of each stream
    pc,                 \* where the runner is: start, parent, between, child, done
    runner_state,       \* the runner's stream_state of the stream being synced
    read_state,         \* the stream_state argument of the running read_records call
    own,                \* the page loop of the stream being read (of the current slice, for a child)
    par,                \* the page loop of the parent read a child stream drives
    record_counter,     \* records the runner has taken from the running read
    emitted,            \* the records each stream has emitted in this run
    iterated,           \* the parent records the child read has taken from its parent read
    requests,           \* the requests sent while reading each stream
    limit,              \* ShopifyStream.limit, the page size (250 in the source, 1..MaxLimit here)
    input_state,        \* the checkpointed states the first run started with
    run,                \* 1 in the first process, 2 in the one that resumes an aborted run
    emitted1            \* the records each stream emitted in the aborted run

cursorVars == <<cur, synced, last>>
syncVars == <<srv, child, connector_state, pc, runner_state, read_state, own, par,
              record_counter, emitted, iterated, requests, limit, input_state, run, emitted1>>
pureVars == <<filt, call>>
vars == <<tmp_stream_state, cursorVars, pureVars, syncVars>>

NoInst == [cls |-> "none"]
SyncedClasses == {"orders", "order_refunds", "collects", "order_risks"}

\* The states a sync can start with, and the records a stream can be handed:
\* with the cursor field or without it.
InputStates(cls) == {EmptyMap} \cup {cursor_field(cls) :> v : v \in Values}
InputRecords(cls) == {EmptyMap} \cup {cursor_field(cls) :> v : v \in Values}

\* self.tmp_stream_state as an instance reads it: the instance attribute once
\* line 138 has assigned it, the class attribute before. Line 138 assigns the
\* object stream_state_to_tmp returns, which is the state_object it was given,
\* so for every instance both name the one dict of line 57.
tmp_of(instance) == tmp_stream_state

\* The cursor value of a state or record, with the default its class uses.
CursorOf(cls, m) == Get(m, cursor_field(cls), IF cls \in IdStreams THEN ZeroId ELSE EmptyStr)

\* What tmp_stream_state holds for a stream name: whether it has the key, and
\* the cursor value under it ("" when there is none).
HasBridge(name) == name \in DOMAIN tmp_stream_state
Bridged(name) == Get(Get(tmp_stream_state, name, EmptyMap), cursor_field(name), EmptyStr)

IdleFrame == [phase |-> "idle"]

CursorIdle ==
    /\ cur = NoInst
    /\ synced = {}
    /\ last = [op |-> "none"]

CallIdle == call = [op |-> "none"]

FilterIdle ==
    /\ filt = [op |-> "none"]
    /\ CallIdle

SyncIdle ==
    /\ srv = [parents |-> <<>>, kids |-> <<>>, badlink |-> 0]
    /\ child = "none"
    /\ connector_state = EmptyMap
    /\ pc = "off"
    /\ runner_state = EmptyMap
    /\ read_state = EmptyMap
    /\ own = IdleFrame
    /\ par = IdleFrame
    /\ record_counter = 0
    /\ emitted = [parent |-> <<>>, child |-> <<>>]
    /\ iterated = <<>>
    /\ requests = [parent |-> <<>>, child |-> <<>>]
    /\ limit = 1
    /\ input_state = EmptyMap
    /\ run = 1
    /\ emitted1 = [parent |-> <<>>, child |-> <<>>]

Init ==
    /\ tmp_stream_state = EmptyMap
    /\ CursorIdle
    /\ FilterIdle
    /\ SyncIdle

\* The runner turns to the next stream of SourceShopify.streams (one instance
\* per class, each synced once in a run) and reads its input state. start,
\* wrote and low are history: the state the sync started with, the keys this
\* instance has written to tmp_stream_state, and the smallest non-empty value
\* the stream's key has held.
StartSync(cls, st) ==
    /\ cls \notin synced
    /\ synced' = synced \cup {cls}
    /\ cur' = [cls |-> cls, state |-> st, start |-> st, wrote |-> {}, low |-> EmptyStr]
    /\ last' = [op |-> "new", cls |-> cls]
    /\ UNCHANGED <<tmp_stream_state, pureVars, syncVars>>

\* The runner: runner_state = stream.get_updated_state(runner_state, record).
GetUpdatedState(latest_record) ==
    /\ cur # NoInst
    /\ LET cls == cur.cls
           current == cur.state
           after == tmp_after_update(cls, current, latest_record, tmp_of(cur))
           now == Get(Get(after, cls, EmptyMap), cursor_field(cls), EmptyStr)
       IN  /\ tmp_stream_state' = after
           /\ cur' = [cls |-> cls,
                      state |-> get_updated_state(cls, current, latest_record),
                      start |-> cur.start,
                      wrote |-> cur.wrote \cup
                                (IF cls \notin IdStreams /\ Truthy(current) THEN {cls} ELSE {}),
                      low |-> IF now = EmptyStr THEN cur.low
                              ELSE IF cur.low = EmptyStr THEN now
                              ELSE Min(cur.low, now)]
           /\ last' = [op |-> "update", cls |-> cls, current |-> current,
                       latest |-> latest_record,
                       had |-> (cls \in DOMAIN tmp_of(cur)),
                       prior |-> Get(Get(tmp_of(cur), cls, EmptyMap), cursor_field(cls), EmptyStr)]
           /\ UNCHANGED <<synced, pureVars, syncVars>>

Next ==
    \/ \E cls \in SyncedClasses : \E st \in InputStates(cls) : StartSync(cls, st)
    \/ \E r \in InputRecords(cur.cls) : GetUpdatedState(r)

Spec == Init /\ [][Next]_vars

\* ------------------------------------------------------------------ filter
\* filter_records_newer_than_state as a function of its arguments: the
\* arguments are drawn at the start and the call yields its records.
FilterClasses == {"order_refunds", "order_risks", "discount_codes"}

\* Record number n of a slice, with cursor value v.
SliceRecord(cls, n, v) == (cursor_field(cls) :> v) @@ ("note" :> n)

SliceInputs(cls) ==
    UNION {{[n \in 1..len |-> SliceRecord(cls, n, vs[n])] : vs \in [1..len -> Values]}
           : len \in 0..MaxLen}

FilterInit ==
    /\ tmp_stream_state = EmptyMap
    /\ CursorIdle
    /\ SyncIdle
    /\ CallIdle
    /\ \E cls \in FilterClasses : \E st \in InputStates(cls) : \E recs \in SliceInputs(cls) :
          filt = [op |-> "args", cls |-> cls, state |-> st, records |-> recs]

FilterCall ==
    /\ filt.op = "args"
    /\ filt' = [op |-> "done", cls |-> filt.cls, state |-> filt.state, records |-> filt.records,
                out |-> filter_records_newer_than_state(filt.cls, filt.state, filt.records)]
    /\ UNCHANGED <<tmp_stream_state, cursorVars, call, syncVars>>

FilterNext == FilterCall

SpecFilter == FilterInit /\ [][FilterNext]_vars

\* ------------------------------------------------------------------ requests
\* Python's None where a number or a string is expected.
PyNone == "None"

ParentOf(cls) == IF cls = "discount_codes" THEN "price_rules" ELSE "orders"
slice_key(cls) == IF cls = "discount_codes" THEN "price_rule_id" ELSE "order_id"

\* path(): the segments of the endpoint path, without the ".json" suffix.
path(cls, stream_slice) ==
    IF cls \in OrderSubstreams
    THEN <<"orders", stream_slice["order_id"], data_field(cls)>>
    ELSE IF cls = "discount_codes"
         THEN <<"price_rules", stream_slice["price_rule_id"], data_field(cls)>>
         ELSE <<data_field(cls)>>

\* ShopifyStream.request_params. "<order_field> asc" is the pair of its parts.
base_request_params(cls, next_page_token) ==
    IF Truthy(next_page_token)
    THEN next_page_token @@ ("limit" :> limit)
    ELSE ("limit" :> limit) @@ ("order" :> <<order_field(cls), "asc">>)
            @@ (filter_field(cls) :> start_date)

\* IncrementalShopifyStream.request_params leaving the filter at start_date
\* whatever the state holds.
incremental_request_params_no_state(cls, stream_state, next_page_token) ==
    LET params == base_request_params(cls, next_page_token)
    IN  IF ~Truthy(next_page_token)
        THEN Put(params, "order", <<order_field(cls), "asc">>)
        ELSE params

\* IncrementalShopifyStream.request_params
incremental_request_params(cls, stream_state, next_page_token) ==
    LET params == base_request_params(cls, next_page_token)
    IN  IF ~Truthy(next_page_token)
        THEN IF Truthy(stream_state)
             THEN Put(Put(params, "order", <<order_field(cls), "asc">>),
                      filter_field(cls), Get(stream_state, cursor_field(cls), PyNone))
             ELSE Put(params, "order", <<order_field(cls), "asc">>)
        ELSE params

\* request_params with Orders adding status=any to every request, the
\* later pages included.
request_params_status_always(cls, stream_state, next_page_token) ==
    LET params == incremental_request_params(cls, stream_state, next_page_token)
    IN  IF cls = "orders"
        THEN Put(params, "status", "any")
        ELSE IF cls \in IdStreams /\ ~Truthy(next_page_token) /\ ~Truthy(stream_state)
             THEN Put(params, filter_field(cls), ZeroId)
             ELSE params

\* request_params of each class: Orders adds status=any, Collects and
\* OrderRisks seed the filter with 0 when there is no state.
request_params(cls, stream_state, next_page_token) ==
    LET params == incremental_request_params(cls, stream_state, next_page_token)
    IN  IF cls = "orders" /\ ~Truthy(next_page_token)
        THEN Put(params, "status", "any")
        ELSE IF cls \in IdStreams /\ ~Truthy(next_page_token) /\ ~Truthy(stream_state)
             THEN Put(params, filter_field(cls), ZeroId)
             ELSE params

\* next_page_token returning the next link itself instead of the query of its URL.
next_page_token_link(response) == Get(response.links, "next", None)

\* ShopifyStream.next_page_token: the query of the "next" link, None without one.
\* A link is held as [url |-> the query parameters of its URL].
next_page_token(response) ==
    LET next_page == Get(response.links, "next", None)
    IN  IF Truthy(next_page) THEN next_page["url"] ELSE None

\* parse_response taking the payload itself for the record when the data
\* field is missing.
parse_response_whole(cls, response) == Get(response.json, data_field(cls), <<response.json>>)

\* ShopifyStream.parse_response (every class here has a data_field).
parse_response(cls, response) == Get(response.json, data_field(cls), <<>>)

\* request_params as a function of its arguments: the class, the state and
\* the page token are drawn at the start and the call returns the parameters.
ParamClasses == TimestampStreams \cup IdStreams

\* The states request_params can be given: none, or the cursor field with a
\* value ("" included, the state a record without the cursor field leaves).
ParamStates(cls) == InputStates(cls) \cup {cursor_field(cls) :> EmptyStr}

\* The page tokens: none, or the query of a next link, which holds page_info
\* and may hold limit.
PageTokens ==
    {None} \cup {[page_info |-> p] : p \in 1..MaxLen}
           \cup {[limit |-> l, page_info |-> p] : l \in 1..MaxLimit, p \in 1..MaxLen}

ParamsInit ==
    /\ tmp_stream_state = EmptyMap
    /\ CursorIdle
    /\ filt = [op |-> "none"]
    /\ SyncIdle
    /\ \E cls \in ParamClasses : \E st \in ParamStates(cls) : \E tok \in PageTokens :
          call = [op |-> "args", cls |-> cls, state |-> st, token |-> tok]

ParamsCall ==
    /\ call.op = "args"
    /\ call' = [op |-> "done", cls |-> call.cls, state |-> call.state, token |-> call.token,
                params |-> request_params(call.cls, call.state, call.token)]
    /\ UNCHANGED <<tmp_stream_state, cursorVars, filt, syncVars>>

ParamsNext == ParamsCall

SpecParams == ParamsInit /\ [][ParamsNext]_vars

\* ------------------------------------------------------------------ server
\* The REST API: the rows of an endpoint in ascending order of its order
\* field, filtered by updated_at_min / created_at_min (at or after) or since_id
\* (after), served limit rows a page; the next link carries limit and the
\* position of the next row. srv.badlink is the row whose next link is
\* malformed (its URL has no query), 0 when every link is well formed. The
\* payload of a page without rows may lack the data field (bare): the server
\* answers either way.
Rows(p) ==
    IF Len(p) = 1
    THEN srv.parents
    ELSE SelectSeq(srv.kids, LAMBDA r : r[IF p[1] = "orders" THEN "order_id" ELSE "price_rule_id"] = p[2])

Passes(r, params) ==
    /\ "since_id" \in DOMAIN params => r["id"] > params["since_id"]
    /\ "updated_at_min" \in DOMAIN params => r["updated_at"] >= params["updated_at_min"]
    /\ "created_at_min" \in DOMAIN params => r["created_at"] >= params["created_at_min"]

FirstRow(rows, params) ==
    IF "page_info" \in DOMAIN params
    THEN params["page_info"]
    ELSE LET hits == {n \in 1..Len(rows) : Passes(rows[n], params)}
         IN  IF hits = {} THEN Len(rows) + 1 ELSE CHOOSE n \in hits : \A m \in hits : n <= m

PageRows(request) ==
    LET rows == Rows(request.path)
        from == FirstRow(rows, request.params)
    IN  SubSeq(rows, from, Min(Len(rows), from + request.params["limit"] - 1))

Response(request, bare) ==
    LET rows == Rows(request.path)
        from == FirstRow(rows, request.params)
        upto == Min(Len(rows), from + request.params["limit"] - 1)
    IN  [json |-> IF upto < from /\ bare
                  THEN EmptyMap
                  ELSE (request.path[Len(request.path)] :> SubSeq(rows, from, upto)),
         links |-> IF upto < Len(rows)
                   THEN [next |-> [url |-> IF upto + 1 = srv.badlink
                                           THEN EmptyMap
                                           ELSE [limit |-> request.params["limit"],
                                                 page_info |-> upto + 1]]]
                   ELSE EmptyMap]

\* ------------------------------------------------------------------ page loop
\* HttpStream.read_records: request, yield the parsed records, take the next
\* page token, stop when there is none. A frame is one running read.
NewFrame(cls, st, sl) ==
    [phase |-> "request", cls |-> cls, state |-> st, slice |-> sl,
     token |-> None, buf |-> <<>>, next |-> None]

Request(f) == [path |-> path(f.cls, f.slice), params |-> request_params(f.cls, f.state, f.token)]

\* The frame after the request: the page's records to yield, or, for an empty
\* page, straight on to the next request or the end.
AfterFetch(f, bare) ==
    LET response == Response(Request(f), bare)
        recs == parse_response(f.cls, response)
        tok == next_page_token(response)
    IN  [f EXCEPT !.buf = recs,
                  !.next = tok,
                  !.token = IF recs = <<>> /\ Truthy(tok) THEN tok ELSE f.token,
                  !.phase = IF recs # <<>> THEN "yield"
                            ELSE IF Truthy(tok) THEN "request" ELSE "done"]

\* The frame after one record has been yielded.
AfterPop(f) ==
    LET rest == Tail(f.buf)
    IN  [f EXCEPT !.buf = rest,
                  !.token = IF rest = <<>> /\ Truthy(f.next) THEN f.next ELSE f.token,
                  !.phase = IF rest # <<>> THEN "yield"
                            ELSE IF Truthy(f.next) THEN "request" ELSE "done"]

\* ------------------------------------------------------------------ sync
ChildKinds == {"order_refunds", "order_risks", "discount_codes"}

\* IncrementalShopifyStream.state_checkpoint_interval
state_checkpoint_interval == limit

\* The data a server can hold: parents in ascending updated_at order (the
\* newest-updated has the smallest id), kids in ascending order of their
\* parent and cursor value; the ids of an order's risks are distinct.
Ascending(vs) == \A n \in 1..(Len(vs) - 1) : vs[n] <= vs[n + 1]

\* The cursor values the rows of the shop carry: start_date and one later
\* value (the states a sync is given range over all of Values, so a state can
\* lie below, at or above every row).
ShopValues == {start_date, start_date + 1}

ParentData(cls) ==
    UNION {{[n \in 1..len |-> ("id" :> (len + 1 - n)) @@ (cursor_field(cls) :> vs[n])]
            : vs \in {w \in [1..len -> ShopValues] : Ascending(w)}}
           : len \in 0..MaxRecords}

KidKeys(len) == [pid : 1..len, v : ShopValues]

KidOrder(a, b, strict) ==
    \/ a.pid < b.pid
    \/ a.pid = b.pid /\ (IF strict THEN a.v < b.v ELSE a.v <= b.v)

KidRecord(cls, n, k) ==
    IF cls \in IdStreams
    THEN ("id" :> k.v) @@ (slice_key(cls) :> k.pid)
    ELSE ("id" :> n) @@ (slice_key(cls) :> k.pid) @@ (cursor_field(cls) :> k.v)

KidData(cls, parents) ==
    UNION {{[n \in 1..len |-> KidRecord(cls, n, ks[n])]
            : ks \in {w \in [1..len -> KidKeys(Len(parents))] :
                        \A n \in 1..(len - 1) : KidOrder(w[n], w[n + 1], cls \in IdStreams)}}
           : len \in 0..(MaxRecords - Len(parents))}

SyncInit ==
    /\ tmp_stream_state = EmptyMap
    /\ CursorIdle
    /\ FilterIdle
    /\ child \in ChildKinds
    /\ \E ps \in ParentData(ParentOf(child)) : \E ks \in KidData(child, ps) :
          srv = [parents |-> ps, kids |-> ks, badlink |-> 0]
    /\ \E ps \in InputStates(ParentOf(child)) : \E cs \in InputStates(child) :
          connector_state = (ParentOf(child) :> ps) @@ (child :> cs)
    /\ input_state = connector_state
    /\ limit \in 1..MaxLimit
    /\ run = 1
    /\ emitted1 = [parent |-> <<>>, child |-> <<>>]
    /\ pc = "start"
    /\ runner_state = EmptyMap
    /\ read_state = EmptyMap
    /\ own = IdleFrame
    /\ par = IdleFrame
    /\ record_counter = 0
    /\ emitted = [parent |-> <<>>, child |-> <<>>]
    /\ iterated = <<>>
    /\ requests = [parent |-> <<>>, child |-> <<>>]

Role == IF pc = "parent" THEN "parent" ELSE "child"
StreamOf(role) == IF role = "parent" THEN ParentOf(child) ELSE child

\* The runner turns to the parent stream: it reads its checkpointed state and
\* calls read_records with it.
StartParent ==
    /\ pc = "start"
    /\ pc' = "parent"
    /\ runner_state' = connector_state[ParentOf(child)]
    /\ read_state' = connector_state[ParentOf(child)]
    /\ own' = NewFrame(ParentOf(child), connector_state[ParentOf(child)], None)
    /\ record_counter' = 0
    /\ UNCHANGED <<tmp_stream_state, cursorVars, pureVars, srv, child, connector_state, par,
                   emitted, iterated, requests, limit, input_state, run, emitted1>>

\* The running page loop sends its next request.
FetchPage ==
    /\ pc \in {"parent", "child"}
    /\ own.phase = "request"
    /\ \E bare \in BOOLEAN : own' = AfterFetch(own, bare)
    /\ requests' = [requests EXCEPT ![Role] = Append(@, Request(own))]
    /\ UNCHANGED <<tmp_stream_state, cursorVars, pureVars, srv, child, connector_state, pc,
                   runner_state, read_state, par, record_counter, emitted, iterated, limit, input_state, run, emitted1>>

\* Whether the child read lets a record of a slice through.
Keeps(record) == filter_records_newer_than_state(child, read_state, <<record>>) = <<record>>

\* A record reaches the runner: it is emitted, the state is updated with it
\* and checkpointed every state_checkpoint_interval records.
YieldRecord ==
    /\ pc \in {"parent", "child"}
    /\ own.phase = "yield"
    /\ pc = "child" => Keeps(Head(own.buf))
    /\ LET record == Head(own.buf)
           cls == StreamOf(Role)
           updated == get_updated_state(cls, runner_state, record)
       IN  /\ emitted' = [emitted EXCEPT ![Role] = Append(@, record)]
           /\ runner_state' = updated
           /\ tmp_stream_state' = tmp_after_update(cls, runner_state, record, tmp_stream_state)
           /\ record_counter' = record_counter + 1
           /\ connector_state' = IF (record_counter + 1) % state_checkpoint_interval = 0
                                 THEN [connector_state EXCEPT ![cls] = updated]
                                 ELSE connector_state
    /\ own' = AfterPop(own)
    /\ UNCHANGED <<cursorVars, pureVars, srv, child, pc, read_state, par, iterated, requests, limit, input_state, run, emitted1>>

\* filter_records_newer_than_state drops a record of the slice.
DropRecord ==
    /\ pc = "child"
    /\ own.phase = "yield"
    /\ ~Keeps(Head(own.buf))
    /\ own' = AfterPop(own)
    /\ UNCHANGED <<tmp_stream_state, cursorVars, pureVars, srv, child, connector_state, pc,
                   runner_state, read_state, par, record_counter, emitted, iterated, requests, limit, input_state, run, emitted1>>

\* The read is exhausted: the runner checkpoints the stream's state.
FinishParent ==
    /\ pc = "parent"
    /\ own.phase = "done"
    /\ connector_state' = [connector_state EXCEPT ![ParentOf(child)] = runner_state]
    /\ pc' = "between"
    /\ UNCHANGED <<tmp_stream_state, cursorVars, pureVars, srv, child, runner_state, read_state,
                   own, par, record_counter, emitted, iterated, requests, limit, input_state, run, emitted1>>

\* StartChild taking the parent's entry out of tmp_stream_state (pop) instead
\* of reading it (get).
StartChildPop ==
    /\ pc = "between"
    /\ pc' = "child"
    /\ runner_state' = connector_state[child]
    /\ read_state' = connector_state[child]
    /\ par' = NewFrame(ParentOf(child), Get(tmp_stream_state, ParentOf(child), None), None)
    /\ tmp_stream_state' = [k \in DOMAIN tmp_stream_state \ {ParentOf(child)} |-> tmp_stream_state[k]]
    /\ own' = IdleFrame
    /\ record_counter' = 0
    /\ UNCHANGED <<cursorVars, pureVars, srv, child, connector_state,
                   emitted, iterated, requests, limit, input_state, run, emitted1>>

\* The runner turns to the child stream. OrderSubstream.read_records /
\* DiscountCodes.read_records take the parent's entry of tmp_stream_state and
\* start a read of a new parent instance with it.
StartChild ==
    /\ pc = "between"
    /\ pc' = "child"
    /\ runner_state' = connector_state[child]
    /\ read_state' = connector_state[child]
    /\ par' = NewFrame(ParentOf(child), Get(tmp_stream_state, ParentOf(child), None), None)
    /\ own' = IdleFrame
    /\ record_counter' = 0
    /\ UNCHANGED <<tmp_stream_state, cursorVars, pureVars, srv, child, connector_state,
                   emitted, iterated, requests, limit, input_state, run, emitted1>>

\* The parent read inside the child read sends its next request.
FetchParentPage ==
    /\ pc = "child"
    /\ own.phase \in {"idle", "done"}
    /\ par.phase = "request"
    /\ \E bare \in BOOLEAN : par' = AfterFetch(par, bare)
    /\ requests' = [requests EXCEPT !.child = Append(@, Request(par))]
    /\ UNCHANGED <<tmp_stream_state, cursorVars, pureVars, srv, child, connector_state, pc,
                   runner_state, read_state, own, record_counter, emitted, iterated, limit, input_state, run, emitted1>>

\* TakeParent handing the child's stream_state on to the page loop of the
\* slice.
TakeParentWithState ==
    /\ pc = "child"
    /\ own.phase \in {"idle", "done"}
    /\ par.phase = "yield"
    /\ own' = NewFrame(child, read_state, slice_key(child) :> Head(par.buf)["id"])
    /\ par' = AfterPop(par)
    /\ iterated' = Append(iterated, Head(par.buf))
    /\ UNCHANGED <<tmp_stream_state, cursorVars, pureVars, srv, child, connector_state, pc,
                   runner_state, read_state, record_counter, emitted, requests, limit,
                   input_state, run, emitted1>>

\* TakeParent with the slice bound late: the page loop of the slice is given
\* the id of the last parent record of the page instead of the one taken.
TakeParentLate ==
    /\ pc = "child"
    /\ own.phase \in {"idle", "done"}
    /\ par.phase = "yield"
    /\ own' = NewFrame(child, None, slice_key(child) :> par.buf[Len(par.buf)]["id"])
    /\ par' = AfterPop(par)
    /\ iterated' = Append(iterated, Head(par.buf))
    /\ UNCHANGED <<tmp_stream_state, cursorVars, pureVars, srv, child, connector_state, pc,
                   runner_state, read_state, record_counter, emitted, requests, limit,
                   input_state, run, emitted1>>

\* The child read takes the next parent record and starts the page loop of
\* its slice: super().read_records(stream_slice={"order_id": data["id"]}),
\* which is given no runner_state.
TakeParent ==
    /\ pc = "child"
    /\ own.phase \in {"idle", "done"}
    /\ par.phase = "yield"
    /\ own' = NewFrame(child, None, slice_key(child) :> Head(par.buf)["id"])
    /\ par' = AfterPop(par)
    /\ iterated' = Append(iterated, Head(par.buf))
    /\ UNCHANGED <<tmp_stream_state, cursorVars, pureVars, srv, child, connector_state, pc,
                   runner_state, read_state, record_counter, emitted, requests, limit, input_state, run, emitted1>>

FinishChild ==
    /\ pc = "child"
    /\ own.phase \in {"idle", "done"}
    /\ par.phase = "done"
    /\ connector_state' = [connector_state EXCEPT ![child] = runner_state]
    /\ pc' = "done"
    /\ UNCHANGED <<tmp_stream_state, cursorVars, pureVars, srv, child, runner_state, read_state,
                   own, par, record_counter, emitted, iterated, requests, limit, input_state, run, emitted1>>

SyncNext ==
    \/ StartParent
    \/ FetchPage
    \/ YieldRecord
    \/ DropRecord
    \/ FinishParent
    \/ StartChild
    \/ FetchParentPage
    \/ TakeParent
    \/ FinishChild

SpecSync == SyncInit /\ [][SyncNext]_vars

\* ------------------------------------------------------------------ pages
\* One read of a parent stream against a server whose next links can be
\* malformed: the process is pointed at a shop (its rows, the incoming state,
\* the page size), the runner starts the read, the page loop runs, the runner
\* checkpoints at the end.
ConnectShop ==
    /\ pc = "off"
    /\ pc' = "start"
    /\ child' \in {"order_refunds", "discount_codes"}
    /\ \E ps \in ParentData(ParentOf(child')) : \E n \in 0..MaxRecords :
          srv' = [parents |-> ps, kids |-> <<>>, badlink |-> n]
    /\ \E ps \in InputStates(ParentOf(child')) :
          connector_state' = (ParentOf(child') :> ps) @@ (child' :> EmptyMap)
    /\ input_state' = connector_state'
    /\ limit' \in 1..MaxLimit
    /\ UNCHANGED <<tmp_stream_state, cursorVars, pureVars, runner_state, read_state, own, par,
                   record_counter, emitted, iterated, requests, run, emitted1>>

PagesNext ==
    \/ ConnectShop
    \/ StartParent
    \/ FetchPage
    \/ YieldRecord
    \/ FinishParent

SpecPages == Init /\ [][PagesNext]_vars

\* ------------------------------------------------------------------ resume
\* The process is killed at any point of the first run and a new one is
\* started: the checkpointed states are what the new run is given, and
\* tmp_stream_state is the new process's, empty again.
Abort ==
    /\ run = 1
    /\ pc \in {"parent", "between", "child"}
    /\ run' = 2
    /\ emitted1' = emitted
    /\ emitted' = [parent |-> <<>>, child |-> <<>>]
    /\ tmp_stream_state' = EmptyMap
    /\ pc' = "start"
    /\ runner_state' = EmptyMap
    /\ read_state' = EmptyMap
    /\ own' = IdleFrame
    /\ par' = IdleFrame
    /\ record_counter' = 0
    /\ iterated' = <<>>
    /\ requests' = [parent |-> <<>>, child |-> <<>>]
    /\ UNCHANGED <<cursorVars, pureVars, srv, child, connector_state, limit, input_state>>

ResumeNext == SyncNext \/ Abort

SpecResume == SyncInit /\ [][ResumeNext]_vars

\* ------------------------------------------------------------------ claims

\* C1 (as claimed): every stream_state_to_tmp call of a timestamp-cursored
\* stream made with a non-empty current state leaves the stream's bridged
\* cursor value equal to the minimum of the previously bridged value (when
\* there is one), the current state's cursor value and the latest record's
\* cursor value. Stated for records that carry the cursor field.
C1_BridgeIsMinOfThree ==
    (last.op = "update" /\ last.cls \in TimestampStreams /\ Truthy(last.current)
        /\ cursor_field(last.cls) \in DOMAIN last.latest)
    => LET just == Min(CursorOf(last.cls, last.current), CursorOf(last.cls, last.latest))
       IN  /\ HasBridge(last.cls)
           /\ Bridged(last.cls) = IF TruthyValue(last.prior) THEN Min(last.prior, just) ELSE just

\* C4 (as claimed): the temporary state is scoped to one stream instance:
\* every key an instance sees in its tmp_stream_state was written by a
\* get_updated_state call on that very instance, so a newly started instance
\* sees an empty one.
C4_BridgeScopedToInstance ==
    cur # NoInst => DOMAIN tmp_of(cur) \subseteq cur.wrote

\* C6: the cursor value of the stream state never decreases from one
\* get_updated_state call to the next, nor from the state the sync started
\* with, whatever the records (any order, with or without the cursor field).
C6_HighWaterMonotone ==
    /\ cur # NoInst => /\ CursorOf(cur.cls, cur.state) >= CursorOf(cur.cls, cur.start)
                       /\ (cur.state # cur.start => DOMAIN cur.state = {cursor_field(cur.cls)})
    /\ last.op = "update" => CursorOf(cur.cls, cur.state) >= CursorOf(last.cls, last.current)

\* C6 witness: a record older than the state (or without the cursor field)
\* was applied to a non-empty state and the state kept its value.
C6_Witness ==
    /\ last.op = "update"
    /\ Truthy(last.current)
    /\ CursorOf(last.cls, last.latest) < CursorOf(last.cls, last.current)
    /\ cur.state = last.current

\* C7 (as claimed): once tmp_stream_state has an entry for a stream, no later
\* get_updated_state call leaves that stream's bridged value larger than the
\* value it held before the call.
C7_BridgeNeverRises ==
    (last.op = "update" /\ last.had) => Bridged(last.cls) <= last.prior

\* C7 (amended): once the bridged value of a stream is non-empty, no later
\* get_updated_state call leaves it larger than the call found it, nor larger
\* than any non-empty value it has held.
C7_NonEmptyBridgeNeverRises ==
    /\ (last.op = "update" /\ TruthyValue(last.prior)) => Bridged(last.cls) <= last.prior
    /\ (cur # NoInst /\ TruthyValue(cur.low)) => Bridged(cur.cls) <= cur.low

\* C7 witness: a call found a non-empty bridged value and a current state
\* above it, so the larger of the two was there to be taken.
C7_Witness ==
    /\ last.op = "update"
    /\ TruthyValue(last.prior)
    /\ CursorOf(last.cls, last.current) > last.prior
    /\ Bridged(last.cls) = last.prior

\* C8: get_updated_state returns exactly {cursor_field: max(latest, current)},
\* a missing value counting as "" (0 for Collects and OrderRisks); the spec's
\* examples hold, and applying the same record again changes nothing.
C8_UpdatedStateIsMax ==
    /\ last.op = "update" =>
        LET cf == cursor_field(last.cls)
            a == CursorOf(last.cls, last.latest)
            b == CursorOf(last.cls, last.current)
        IN  /\ DOMAIN cur.state = {cf}
            /\ cur.state[cf] >= a
            /\ cur.state[cf] >= b
            /\ cur.state[cf] \in {a, b}
            /\ get_updated_state(last.cls, cur.state, last.latest) = cur.state
    /\ get_updated_state("orders", EmptyMap, [updated_at |-> 2]) = [updated_at |-> 2]
    /\ get_updated_state("orders", [updated_at |-> 3], [updated_at |-> 2]) = [updated_at |-> 3]
    /\ get_updated_state("collects", [id |-> 5], [id |-> 3]) = [id |-> 5]
    /\ get_updated_state("collects", EmptyMap, [id |-> 3]) = [id |-> 3]
    /\ get_updated_state("order_risks", [id |-> 5], [id |-> 3]) = [id |-> 5]

\* C8 witness: an id-cursored stream with no state was handed a record with
\* an id and returned that id as its state.
C8_Witness ==
    /\ last.op = "update"
    /\ last.cls \in IdStreams
    /\ last.current = EmptyMap
    /\ "id" \in DOMAIN last.latest
    /\ cur.state = last.latest

\* C9: with a state, filter_records_newer_than_state yields exactly the
\* records whose cursor value is >= the state's (equal ones kept, smaller
\* ones dropped), in their original order and each once; with no state it
\* yields all records unchanged.
C9_FilterKeepsNewerOrEqual ==
    /\ filt.op = "done" =>
        LET cf == cursor_field(filt.cls)
            kept == {n \in 1..Len(filt.records) : filt.records[n][cf] >= filt.state[cf]}
        IN  IF Truthy(filt.state)
            THEN /\ Len(filt.out) = Cardinality(kept)
                 /\ \A k \in 1..Len(filt.out) :
                       /\ filt.out[k].note \in kept
                       /\ filt.out[k] = filt.records[filt.out[k].note]
                       /\ k > 1 => filt.out[k - 1].note < filt.out[k].note
            ELSE filt.out = filt.records
    /\ filter_records_newer_than_state("order_refunds", [created_at |-> 2],
            <<[created_at |-> 1], [created_at |-> 2], [created_at |-> 3]>>)
         = <<[created_at |-> 2], [created_at |-> 3]>>
    /\ filter_records_newer_than_state("order_refunds", None,
            <<[created_at |-> 2], [created_at |-> 1]>>)
         = <<[created_at |-> 2], [created_at |-> 1]>>

\* C9 witness: a call with a state that kept a record equal to the state and
\* dropped an older one that came after it.
C9_Witness ==
    /\ filt.op = "done"
    /\ Truthy(filt.state)
    /\ Len(filt.records) >= 2
    /\ filt.records[1][cursor_field(filt.cls)] = filt.state[cursor_field(filt.cls)]
    /\ filt.records[2][cursor_field(filt.cls)] < filt.state[cursor_field(filt.cls)]
    /\ filt.out # <<>>
    /\ Len(filt.out) < Len(filt.records)

Range(seq) == {seq[n] : n \in 1..Len(seq)}

\* C2 (as claimed): a first sync that is aborted and resumed from the
\* checkpointed states, against the same server data, has emitted every record
\* the server holds of every stream, parent or child, in one run or the other
\* once the resumed run is done.
C2_AtLeastOnceAcrossResume ==
    (run = 2 /\ pc = "done" /\ \A name \in DOMAIN input_state : input_state[name] = EmptyMap)
    => /\ Range(srv.parents) \subseteq Range(emitted1.parent) \cup Range(emitted.parent)
       /\ Range(srv.kids) \subseteq Range(emitted1.child) \cup Range(emitted.child)

\* C3 (as claimed): with the parent synced to completion and the child read
\* after it in the same run, the parent records the child read iterates are
\* exactly the parent records the parent stream emitted in that run, whatever
\* the parent's incoming state and however many records it emitted.
C3_ChildIteratesParentsEmitted ==
    (run = 1 /\ pc = "done") => Range(iterated) = Range(emitted.parent)

\* C5 (as claimed): the server sorting every response by the order field,
\* the records one read yields, of a parent or of a child stream, are in
\* non-decreasing order of the cursor field.
C5_YieldedInCursorOrder ==
    \A role \in {"parent", "child"} :
        \A n \in 1..Len(emitted[role]) : \A m \in n..Len(emitted[role]) :
            emitted[role][n][cursor_field(StreamOf(role))]
                <= emitted[role][m][cursor_field(StreamOf(role))]

\* The requests of the child read that go to a slice's endpoint, and those
\* among them that start a fetch cycle (they carry no page token).
SliceRequests == SelectSeq(requests.child, LAMBDA q : Len(q.path) = 3)
CycleStarts == SelectSeq(SliceRequests, LAMBDA q : "page_info" \notin DOMAIN q.params)

\* C10: the child read runs one page-fetch cycle per parent record its
\* parent read yields, in the parent's order, each against the path holding
\* that parent's id; later pages of a cycle go to the same path; no cycle is
\* run for any other id, and none when the parent read yields nothing.
C10_OneFetchCyclePerParent ==
    /\ Len(CycleStarts) <= Len(iterated)
    /\ Len(CycleStarts) >= Len(iterated) - 1
    /\ pc = "done" => Len(CycleStarts) = Len(iterated)
    /\ \A k \in 1..Len(CycleStarts) :
          CycleStarts[k].path =
              <<data_field(ParentOf(child)), iterated[k]["id"], data_field(child)>>
    /\ \A k \in 2..Len(SliceRequests) :
          "page_info" \in DOMAIN SliceRequests[k].params
              => SliceRequests[k].path = SliceRequests[k - 1].path
    /\ SliceRequests # <<>> => "page_info" \notin DOMAIN SliceRequests[1].params
    /\ pc = "done" => Range(iterated) \subseteq Range(srv.parents)

\* C10 witness: a finished child read that took two parents or more, with a
\* slice of more than one page.
C10_Witness ==
    /\ pc = "done"
    /\ Len(iterated) >= 2
    /\ iterated[1]["id"] # 1
    /\ \E k \in 1..Len(SliceRequests) : "page_info" \in DOMAIN SliceRequests[k].params

\* C11: the first-page parameters (no page token) of an incremental stream
\* hold order = "<order_field> asc", and the filter field equal to the state's
\* cursor value when a state is given, else to start_date (0 for Collects and
\* OrderRisks).
C11_FirstPageParams ==
    (call.op = "done" /\ ~Truthy(call.token)) =>
        /\ "order" \in DOMAIN call.params
        /\ call.params["order"] = <<order_field(call.cls), "asc">>
        /\ filter_field(call.cls) \in DOMAIN call.params
        /\ call.params[filter_field(call.cls)] =
              IF Truthy(call.state) THEN call.state[cursor_field(call.cls)]
              ELSE IF call.cls \in IdStreams THEN 0 ELSE start_date

\* C11 witness: a first-page call with a state above start_date returned that
\* state's cursor value as the filter.
C11_Witness ==
    /\ call.op = "done"
    /\ ~Truthy(call.token)
    /\ Truthy(call.state)
    /\ call.state[cursor_field(call.cls)] > start_date
    /\ call.params[filter_field(call.cls)] = call.state[cursor_field(call.cls)]

\* C12 (as claimed): with a page token, request_params returns the token's
\* own parameters and nothing else.
C12_TokenParamsOnly ==
    (call.op = "done" /\ Truthy(call.token)) => call.params = call.token

\* C12 (amended): with a page token, request_params returns the token's
\* parameters and limit (the token's limit when it has one, else the page
\* size), and nothing else: no order, filter field or status.
C12_TokenParamsAndLimit ==
    (call.op = "done" /\ Truthy(call.token)) =>
        /\ DOMAIN call.params = DOMAIN call.token \cup {"limit"}
        /\ \A k \in DOMAIN call.token : call.params[k] = call.token[k]
        /\ "limit" \notin DOMAIN call.token => call.params["limit"] = limit

\* C12 witness: an Orders call with a token that holds no limit.
C12_Witness ==
    /\ call.op = "done"
    /\ call.cls = "orders"
    /\ Truthy(call.token)
    /\ "limit" \notin DOMAIN call.token
    /\ Truthy(call.state)
    /\ "page_info" \in DOMAIN call.params

\* The requests of a parent stream's read, whether the response to a request
\* carries a usable next link (present, with a URL that has a query), and the
\* rows of the first n pages fetched, in page order.
ParentRequests == requests.parent

UsableLink(q) ==
    LET links == Response(q, FALSE).links
    IN  "next" \in DOMAIN links /\ links["next"]["url"] # EmptyMap

RECURSIVE FetchedRows(_)
FetchedRows(n) == IF n = 0 THEN <<>> ELSE FetchedRows(n - 1) \o PageRows(ParentRequests[n])

\* What C13 says of a finished read: its first request carried no page token
\* and each later one carried exactly the parameters of the previous
\* response's next link, to the same path (so no request followed a response
\* without a usable link); the last response has no usable next link (absent,
\* or without a query); and the read has yielded the rows of every fetched
\* page, in page order.
LoopFollowedLinks ==
    /\ ParentRequests # <<>>
    /\ "page_info" \notin DOMAIN ParentRequests[1].params
    /\ \A k \in 2..Len(ParentRequests) :
          /\ UsableLink(ParentRequests[k - 1])
          /\ ParentRequests[k].params = Response(ParentRequests[k - 1], FALSE).links["next"]["url"]
          /\ ParentRequests[k].path = ParentRequests[k - 1].path
    /\ ~UsableLink(ParentRequests[Len(ParentRequests)])
    /\ emitted.parent = FetchedRows(Len(ParentRequests))

\* The work a read has left: the steps of the runner, two for every row not
\* yet yielded and one for every request the rows can still take.
PagesLeft ==
    (IF pc = "start" THEN 2 ELSE IF pc = "parent" THEN 1 ELSE 0)
        + 2 * (Len(srv.parents) - Len(emitted.parent))
        + (Len(srv.parents) + 1 - Len(ParentRequests))

PageLoopInv ==
    /\ PagesLeft \in Nat
    /\ pc = "parent" => \/ own.phase = "request"
                        \/ own.phase = "yield" /\ own.buf # <<>>
                        \/ own.phase = "done"
    /\ pc = "between" => LoopFollowedLinks

\* C13: the read of a server that offers finitely many pages terminates (a
\* running read always has its next step, a request, a record to yield or
\* the end, and every step takes from the finite work left), and it terminates having followed the links as above: START, a
\* request without a token, requests with the token of the previous page,
\* DONE at the first response without a usable next link.
C13_PageLoopTerminates ==
    /\ []PageLoopInv
    /\ [][pc # "off" => PagesLeft' < PagesLeft]_vars

\* C13 witness: a read of two pages or more that ended on a malformed next
\* link, with rows left unfetched on the server.
C13_Witness ==
    /\ pc = "between"
    /\ Len(ParentRequests) >= 2
    /\ "next" \in DOMAIN Response(ParentRequests[Len(ParentRequests)], FALSE).links
    /\ Len(emitted.parent) < Len(srv.parents)
    /\ emitted.parent # <<>>

\* Whether every fetch a stream's read has made so far returned no rows: the
\* requests of a parent stream, and for a child stream the requests to its
\* slices.
NoRowsFetched(role) ==
    \A k \in 1..Len(requests[role]) :
        (role = "child" => Len(requests[role][k].path) = 3) => PageRows(requests[role][k]) = <<>>

\* C14: a sync of a stream whose fetches return no records (pages whose
\* payload lacks the data field included, and a child stream whose parent
\* yields nothing or whose slices are all empty) yields no record and leaves
\* the stream's checkpointed state equal to the state it was given.
C14_EmptySyncKeepsState ==
    /\ NoRowsFetched("parent") =>
          /\ emitted.parent = <<>>
          /\ pc \in {"between", "child", "done"} =>
                connector_state[ParentOf(child)] = input_state[ParentOf(child)]
    /\ (pc \in {"child", "done"} /\ NoRowsFetched("child")) =>
          /\ emitted.child = <<>>
          /\ pc = "done" => connector_state[child] = input_state[child]

\* C14 witness: a finished child sync given a state, whose parent read
\* yielded records and whose slices were all empty.
C14_Witness ==
    /\ pc = "done"
    /\ NoRowsFetched("child")
    /\ iterated # <<>>
    /\ Truthy(input_state[child])
    /\ emitted.child = <<>>
    /\ Len(SliceRequests) = Len(iterated)

\* The records a stream emits in the resumed run that the aborted run had
\* emitted already.
Replayed(role) == {n \in 1..Len(emitted[role]) : emitted[role][n] \in Range(emitted1[role])}

\* C15 (as claimed): a run resumed from the last checkpointed states, against
\* the same server data, emits again at most one page (limit records) of what
\* the aborted run had emitted, for every stream.
C15_ReplayAtMostOnePage ==
    run = 2 => \A role \in {"parent", "child"} : Cardinality(Replayed(role)) <= limit

\* A step of the child read, its start and its end included, keeps the
\* parent's checkpointed state and the parent's entry of tmp_stream_state.
ParentKeptByChildStep ==
    pc \in {"between", "child"} =>
        /\ connector_state'[ParentOf(child)] = connector_state[ParentOf(child)]
        /\ (ParentOf(child) \in DOMAIN tmp_stream_state') = (ParentOf(child) \in DOMAIN tmp_stream_state)
        /\ Get(tmp_stream_state', ParentOf(child), None) = Get(tmp_stream_state, ParentOf(child), None)

\* C16: reading a child stream leaves its parent alone: no step of the child
\* read, from its start to its end, changes the parent's checkpointed state
\* or the parent's entry of tmp_stream_state.
C16_ChildReadLeavesParent == [][ParentKeptByChildStep]_vars

\* C16 witness: a finished child read that iterated parent records and
\* emitted records of its own, writing its own entry, with the parent's entry
\* in tmp_stream_state.
C16_Witness ==
    /\ pc = "done"
    /\ HasBridge(ParentOf(child))
    /\ HasBridge(child)
    /\ iterated # <<>>
    /\ emitted.child # <<>>

\* C17: for a timestamp-cursored stream whose state is fed back from call to
\* call, whenever tmp_stream_state has an entry for the stream, the entry's
\* cursor value is at most the cursor value of the stream's current state.
C17_LowWaterBelowHighWater ==
    (cur # NoInst /\ cur.cls \in TimestampStreams /\ HasBridge(cur.cls))
        => Bridged(cur.cls) <= CursorOf(cur.cls, cur.state)

\* C17 witness: the entry is strictly below the state, after a call whose
\* record was newer than the state it was given.
C17_Witness ==
    /\ last.op = "update"
    /\ last.cls \in TimestampStreams
    /\ HasBridge(last.cls)
    /\ TruthyValue(Bridged(last.cls))
    /\ Bridged(last.cls) < CursorOf(cur.cls, cur.state)
    /\ CursorOf(last.cls, last.latest) > CursorOf(last.cls, last.current)

\* C18: get_updated_state called with an empty current state leaves
\* tmp_stream_state as it was and makes no entry for the stream: a sync that
\* started from an empty state and has emitted at most one record has no
\* entry (for the parent, tmp_stream_state is still empty); and when the
\* parent emitted exactly one record, the child stream read after it reads
\* its parent with no state, from start_date.
C18_EmptyStateWritesNoEntry ==
    /\ (~Truthy(input_state[ParentOf(child)]) /\ Len(emitted.parent) <= 1) =>
          /\ ~HasBridge(ParentOf(child))
          /\ pc \in {"start", "parent", "between"} => tmp_stream_state = EmptyMap
    /\ (~Truthy(input_state[child]) /\ Len(emitted.child) <= 1) => ~HasBridge(child)
    /\ (~Truthy(input_state[ParentOf(child)]) /\ Len(emitted.parent) = 1
            /\ pc \in {"child", "done"} /\ requests.child # <<>>) =>
          /\ par.state = None
          /\ requests.child[1].path = <<data_field(ParentOf(child))>>
          /\ requests.child[1].params[filter_field(ParentOf(child))] = start_date

\* C18 witness: a parent synced from an empty state emitted one record, newer
\* than start_date, and the child read after it has sent its parent request.
C18_Witness ==
    /\ pc = "done"
    /\ ~Truthy(input_state[ParentOf(child)])
    /\ Len(emitted.parent) = 1
    /\ emitted.parent[1][cursor_field(ParentOf(child))] > start_date
    /\ requests.child # <<>>
    /\ iterated = emitted.parent

\* A get_updated_state call on the stream being synced keeps every entry of
\* tmp_stream_state under another stream's name, adds no key but the
\* stream's own, and changes nothing at all on Collects and OrderRisks.
OtherEntriesKept ==
    cur # NoInst =>
        /\ \A name \in DOMAIN tmp_stream_state :
              name # cur.cls => /\ name \in DOMAIN tmp_stream_state'
                                /\ tmp_stream_state'[name] = tmp_stream_state[name]
        /\ DOMAIN tmp_stream_state' \subseteq DOMAIN tmp_stream_state \cup {cur.cls}
        /\ cur.cls \in IdStreams => tmp_stream_state' = tmp_stream_state

\* C19: any get_updated_state call on a stream leaves every entry of
\* tmp_stream_state keyed by another stream's name unchanged (a child
\* stream's calls never alter the "orders" entry), and the id-cursored
\* streams Collects and OrderRisks never alter tmp_stream_state.
C19_OtherEntriesUnchanged == [][OtherEntriesKept]_vars

\* C19 witness: with the "orders" entry in place, a call on OrderRefunds has
\* written the entry of OrderRefunds.
C19_Witness ==
    /\ last.op = "update"
    /\ last.cls = "order_refunds"
    /\ ~last.had
    /\ HasBridge("order_refunds")
    /\ HasBridge("orders")
    /\ "collects" \in synced

\* The requests of a child read that is given no state of its own, from the
\* frame of its parent read on: the page loop of the parent, and after every
\* parent record the page loop of its slice.
RECURSIVE Drained(_)
Drained(f) == IF f.phase = "yield" THEN Drained(AfterPop(f)) ELSE f

RECURSIVE SliceRequestsFrom(_)
SliceRequestsFrom(f) ==
    IF f.phase = "request"
    THEN <<Request(f)>> \o SliceRequestsFrom(Drained(AfterFetch(f, FALSE)))
    ELSE <<>>

RECURSIVE StatelessRequestsFrom(_)
StatelessRequestsFrom(pf) ==
    IF pf.phase = "request"
    THEN <<Request(pf)>> \o StatelessRequestsFrom(AfterFetch(pf, FALSE))
    ELSE IF pf.phase = "yield"
         THEN SliceRequestsFrom([phase |-> "request", cls |-> child, state |-> None,
                                 slice |-> (slice_key(child) :> Head(pf.buf)["id"]),
                                 token |-> None, buf |-> <<>>, next |-> None])
                  \o StatelessRequestsFrom(AfterPop(pf))
         ELSE <<>>

\* C20: the page requests of a child read do not depend on the child's
\* state: the first request of every fetch cycle carries limit, the order and
\* the filter field at start_date (0 for OrderRisks) and nothing of the
\* state, and the finished read has sent exactly the requests the same read
\* sends when the child is given no state.
C20_RequestsIgnoreChildState ==
    /\ \A k \in 1..Len(CycleStarts) :
          CycleStarts[k].params =
              ("limit" :> limit) @@ ("order" :> <<order_field(child), "asc">>)
                  @@ (filter_field(child) :> IF child \in IdStreams THEN 0 ELSE start_date)
    /\ pc = "done" =>
          requests.child =
              StatelessRequestsFrom([phase |-> "request", cls |-> ParentOf(child),
                                     state |-> Get(tmp_stream_state, ParentOf(child), None),
                                     slice |-> None, token |-> None, buf |-> <<>>, next |-> None])

\* C20 witness: a finished child read that was given a state above
\* start_date, ran a fetch cycle and had a fetched record filtered out.
C20_Witness ==
    /\ pc = "done"
    /\ Truthy(input_state[child])
    /\ input_state[child][cursor_field(child)] > start_date
    /\ CycleStarts # <<>>
    /\ \E k \in 1..Len(SliceRequests) :
          \E n \in 1..Len(PageRows(SliceRequests[k])) :
              PageRows(SliceRequests[k])[n] \notin Range(emitted.child)

====
